---- MODULE Spec2Model ----
(***************************************************************************)
(* A model of html2image's Firefox wrapper                                 *)
(* (src/html2image/browsers/firefox.py): the FirefoxHeadless object, its   *)
(* screenshot method taken step by step (validation, command composition,  *)
(* echo, subprocess.run, shutil.move), the disable_logging setter, and the *)
(* file system the browser and the move act on.                            *)
(***************************************************************************)
EXTENDS Integers, Sequences, FiniteSets, TLC

\* ------------------------------------------------------------ bounds
\* Calls of screenshot made in one behaviour of the sequential specification.
MaxCalls == 2
\* Calls of screenshot made in one behaviour of the concurrent specification.
MaxConcCalls == 3

\* ------------------------------------------------------ Python values
\* The Python values the constructor and screenshot receive, tagged by type.
PyNone == [type |-> "NoneType"]
PyStr(s) == [type |-> "str", v |-> s]
PyList(l) == [type |-> "list", v |-> l]

\* Python truthiness, as 'not x' tests it: None, '' and [] are falsy.
Truthy(x) ==
  CASE x.type = "NoneType" -> FALSE
    [] x.type = "str" -> x.v # ""
    [] x.type = "list" -> x.v # <<>>

\* isinstance(x, str)
IsStr(x) == x.type = "str"

\* str(x), as an f-string replacement field formats a value.
Str(x) == IF x.type = "NoneType" THEN "None" ELSE x.v

Digit(d) == <<"0", "1", "2", "3", "4", "5", "6", "7", "8", "9">>[d + 1]

RECURSIVE NatStr(_)
NatStr(n) == IF n < 10 THEN Digit(n) ELSE NatStr(n \div 10) \o Digit(n % 10)

\* str(n) of an int
IntStr(n) == IF n < 0 THEN "-" \o NatStr(-n) ELSE NatStr(n)

\* str(size) of a 2-tuple of ints, e.g. "(0, 600)"
TupleStr(size) == "(" \o IntStr(size[1]) \o ", " \o IntStr(size[2]) \o ")"

RECURSIVE JoinSpace(_)
\* ' '.join(command)
JoinSpace(s) ==
  IF s = <<>> THEN ""
  ELSE IF Len(s) = 1 THEN s[1]
  ELSE s[1] \o " " \o JoinSpace(Tail(s))

\* os.path.join(a, b) on POSIX for a relative name b and a directory a that does
\* not end in a slash (the only paths the model draws).
PathJoin(a, b) == IF a = "" THEN b ELSE a \o "/" \o b

\* ------------------------------------------------------------- inputs
Threads == {"t1", "t2"}
MainThread == "t1"

Inputs == {PyNone, PyStr(""), PyStr("a.html"), PyStr("https://b.example")}
OutputPaths == {"out", "nodir"}
\* The output directories that exist and are writable.
ExistingDirs == {"out"}
OutputFiles == {"screenshot.png", "x.png"}
Sizes == {<<800, 600>>, <<1, 1>>, <<0, 600>>, <<1, -1>>}

ConcInputs == {PyStr(""), PyStr("a.html"), PyStr("https://b.example")}
ConcOutputPaths == {"out"}
ConcOutputFiles == {"x.png", "y.png"}
ConcSizes == {<<800, 600>>, <<0, 600>>}

\* The values the constructor's flags parameter takes.
FlagArgs ==
  {PyNone, PyList(<<>>), PyStr("--kiosk"), PyList(<<"--a", "--hide-scrollbars">>)}
\* The values its executable parameter takes: no hint, or a path.
ExecutableArgs == {PyNone, PyStr("/opt/firefox/firefox")}

\* ------------------------------------------------------- file system
NoFile == [call |-> 0, url |-> ""]

OsName == "posix"
Environ == [TMP |-> "C:/Temp"]
DefaultName == "screenshot.png"
\* temp_dir of screenshot
TempDir == PathJoin(IF OsName = "nt" THEN Environ["TMP"] ELSE "/tmp", "html2image")
TempShot == PathJoin(TempDir, DefaultName)

DestPaths ==
  {PathJoin(d, f) : d \in OutputPaths \cup ConcOutputPaths,
                    f \in OutputFiles \cup ConcOutputFiles}
\* A path can be created or replaced when its directory exists.
WritablePaths ==
  {PathJoin(d, f) : d \in ExistingDirs, f \in OutputFiles \cup ConcOutputFiles}
    \cup {TempShot}
AllPaths == DestPaths \cup {TempShot}

VARIABLES
  flagsArg,                \* the flags argument the constructor was given
  loggingArg,              \* the disable_logging argument it was given
  _executable,             \* self._executable
  flags,                   \* self.flags
  print_command,           \* self.print_command
  _disable_logging,        \* self._disable_logging
  _subprocess_run_kwargs,  \* self._subprocess_run_kwargs
  fs,                      \* path -> the image stored there, or NoFile
  pc,                      \* thread -> where its screenshot call stands
  req,                     \* thread -> the arguments of its call, and the call's number
  command,                 \* thread -> the composed command line
  child,                   \* thread -> the child process of its call
  result,                  \* thread -> how its call ended
  events,                  \* thread -> the call's side effects, in order
  ncalls                   \* calls made so far

vars ==
  <<flagsArg, loggingArg, _executable, flags, print_command, _disable_logging,
    _subprocess_run_kwargs, fs, pc, req, command, child, result, events, ncalls>>

config == <<flagsArg, loggingArg, _executable, flags, print_command>>
logging == <<_disable_logging, _subprocess_run_kwargs>>

\* ------------------------------------------------------ FirefoxHeadless
\* find_firefox(value): the path of the browser binary, the caller's hint when
\* one is given and the result of the search otherwise.
FindFirefox(value) == IF value.type = "NoneType" THEN "firefox" ELSE value.v

DefaultFlags == <<"--default-background-color=00000000", "--hide-scrollbars">>

\* self.flags as __init__ sets it from its flags parameter.
InitFlags(f) ==
  IF ~Truthy(f) THEN DefaultFlags
  ELSE IF IsStr(f) THEN <<f.v>> ELSE f.v

DevNullKwargs == [k \in {"stdout", "stderr"} |-> "DEVNULL"]
NoKwargs == [k \in {} |-> "DEVNULL"]

\* The dict the disable_logging setter caches, keeping only one stream.
SubprocessRunKwargsStdoutOnly(value) ==
  IF value THEN [k \in {"stdout"} |-> "DEVNULL"] ELSE NoKwargs

\* self._subprocess_run_kwargs as the disable_logging setter computes it.
SubprocessRunKwargs(value) == IF value THEN DevNullKwargs ELSE NoKwargs

\* What subprocess.run does with a stream: the keyword argument when given,
\* the parent's stream otherwise.
Stdio(kwargs, stream) ==
  IF stream \in DOMAIN kwargs THEN kwargs[stream] ELSE "inherit"

NoError == [type |-> "none"]
Returned == [type |-> "return"]
ValueError(msg) == [type |-> "ValueError", msg |-> msg]
OSError(name) == [type |-> name]

\* The message of the empty-input error (its backquotes written as quotes).
InputEmptyMsg == <<"The 'input' parameter is empty.">>
\* The f-string of the size error, as its literal and replacement parts.
SizeMsg(output_file, size) ==
  <<"Could not screenshot \"", output_file, "\" with a size of ",
    TupleStr(size), ":\n",
    "A valid size consists of two integers greater than 0.">>

\* The validation with the size test made first.
ValidateSizeFirst(input, output_file, size) ==
  IF size[1] < 1 \/ size[2] < 1 THEN ValueError(SizeMsg(output_file, size))
  ELSE IF ~Truthy(input) THEN ValueError(InputEmptyMsg)
  ELSE NoError

\* The validation with only the width tested.
ValidateWidthOnly(input, output_file, size) ==
  IF ~Truthy(input) THEN ValueError(InputEmptyMsg)
  ELSE IF size[1] < 1 THEN ValueError(SizeMsg(output_file, size))
  ELSE NoError

\* The two checks screenshot makes before anything else: the exception it
\* raises, or NoError.
Validate(input, output_file, size) ==
  IF ~Truthy(input) THEN ValueError(InputEmptyMsg)
  ELSE IF size[1] < 1 \/ size[2] < 1 THEN ValueError(SizeMsg(output_file, size))
  ELSE NoError

\* The command line with the window size given as height,width.
ComposeCommandHeightWidth(executable, fl, input, size) ==
  <<executable, "--headless",
    "--window-size=" \o IntStr(size[2]) \o "," \o IntStr(size[1])>>
    \o fl \o <<"--screenshot", "-url", Str(input)>>

\* The list 'command' of screenshot.
ComposeCommand(executable, fl, input, size) ==
  <<executable, "--headless",
    "--window-size=" \o IntStr(size[1]) \o "," \o IntStr(size[2])>>
    \o fl \o <<"--screenshot", "-url", Str(input)>>

\* ------------------------------------------------ browser and move
\* The image Firefox renders for a command line: of the URL that ends it.
Render(cmd, id) == [call |-> id, url |-> cmd[Len(cmd)]]

\* Firefox run with --screenshot and no path: when it succeeds in rendering,
\* it writes the default-named file into its working directory, replacing any
\* file of that name.
BrowserWrite(files, cmd, cwd, id, wrote) ==
  IF wrote /\ PathJoin(cwd, DefaultName) \in AllPaths
  THEN [files EXCEPT ![PathJoin(cwd, DefaultName)] = Render(cmd, id)]
  ELSE files

\* A move that refuses to replace an existing destination.
ShutilMoveNoOverwrite(files, src, dst) ==
  IF files[src] = NoFile \/ dst \notin WritablePaths \/ files[dst] # NoFile
  THEN [err |-> "FileNotFoundError", files |-> files, replaced |-> FALSE]
  ELSE [err |-> "", replaced |-> FALSE,
        files |-> [files EXCEPT ![dst] = files[src], ![src] = NoFile]]

\* A move that reports nothing when there is no source file.
ShutilMoveSilent(files, src, dst) ==
  IF files[src] = NoFile
  THEN [err |-> "", files |-> files, replaced |-> FALSE]
  ELSE IF dst \notin WritablePaths
  THEN [err |-> "FileNotFoundError", files |-> files, replaced |-> FALSE]
  ELSE [err |-> "", replaced |-> files[dst] # NoFile,
        files |-> [files EXCEPT ![dst] = files[src], ![src] = NoFile]]

\* A copy in place of the move: the source file stays.
ShutilMoveCopy(files, src, dst) ==
  IF files[src] = NoFile \/ dst \notin WritablePaths
  THEN [err |-> "FileNotFoundError", files |-> files, replaced |-> FALSE]
  ELSE [err |-> "", replaced |-> files[dst] # NoFile,
        files |-> [files EXCEPT ![dst] = files[src]]]

\* shutil.move(src, dst) of a file to a path that is no directory: os.rename,
\* or copy and unlink; both fail with FileNotFoundError and change nothing
\* when src is absent or dst's directory is.
ShutilMove(files, src, dst) ==
  IF files[src] = NoFile \/ dst \notin WritablePaths
  THEN [err |-> "FileNotFoundError", files |-> files, replaced |-> FALSE]
  ELSE [err |-> "", replaced |-> files[dst] # NoFile,
        files |-> [files EXCEPT ![dst] = files[src], ![src] = NoFile]]

\* ------------------------------------------------------------ state
NoReq ==
  [id |-> 0, input |-> PyNone, output_path |-> "", output_file |-> "",
   size |-> <<0, 0>>]
NoChild ==
  [state |-> "none", cmd |-> <<>>, cwd |-> "", stdout |-> "", stderr |-> "",
   rc |-> 0, wrote |-> FALSE]

\* output_path_file of the call thread t is making
OutputPathFile(t) == PathJoin(req[t].output_path, req[t].output_file)

\* The state after FirefoxHeadless(executable, flags, print_command,
\* disable_logging), with nothing in the temp directory or at any destination.
Constructed(fa, ex, pcmd, dl) ==
  /\ flagsArg = fa
  /\ loggingArg = dl
  /\ _executable = FindFirefox(ex)
  /\ flags = InitFlags(fa)
  /\ print_command = pcmd
  /\ _disable_logging = dl
  /\ _subprocess_run_kwargs = SubprocessRunKwargs(dl)
  /\ fs = [p \in AllPaths |-> NoFile]
  /\ pc = [t \in Threads |-> "idle"]
  /\ req = [t \in Threads |-> NoReq]
  /\ command = [t \in Threads |-> <<>>]
  /\ child = [t \in Threads |-> NoChild]
  /\ result = [t \in Threads |-> NoError]
  /\ events = [t \in Threads |-> <<>>]
  /\ ncalls = 0

Init ==
  \E fa \in FlagArgs, ex \in ExecutableArgs, pcmd \in BOOLEAN, dl \in BOOLEAN :
    Constructed(fa, ex, pcmd, dl)

ConcInit ==
  \E pcmd \in BOOLEAN : Constructed(PyNone, PyNone, pcmd, FALSE)

\* ---------------------------------------------------------- actions
\* screenshot up to the call of subprocess.run: validation, the command line,
\* the echo.
screenshot(t, input, output_path, output_file, size) ==
  /\ pc[t] = "idle"
  /\ ncalls' = ncalls + 1
  /\ req' = [req EXCEPT ![t] =
       [id |-> ncalls + 1, input |-> input, output_path |-> output_path,
        output_file |-> output_file, size |-> size]]
  /\ LET err == Validate(input, output_file, size)
         cmd == ComposeCommand(_executable, flags, input, size)
     IN IF err # NoError
        THEN /\ result' = [result EXCEPT ![t] = err]
             /\ pc' = [pc EXCEPT ![t] = "done"]
             /\ UNCHANGED <<command, events>>
        ELSE /\ command' = [command EXCEPT ![t] = cmd]
             /\ events' = [events EXCEPT ![t] =
                  IF print_command
                  THEN <<[ev |-> "echo", text |-> JoinSpace(cmd)]>>
                  ELSE <<>>]
             /\ pc' = [pc EXCEPT ![t] = "spawn"]
             /\ UNCHANGED result
  /\ UNCHANGED <<config, logging, fs, child>>

\* The child started and not waited for.
subprocess_popen(t) ==
  /\ pc[t] = "spawn"
  /\ child' = [child EXCEPT ![t] =
       [state |-> "running", cmd |-> command[t], cwd |-> TempDir,
        stdout |-> Stdio(_subprocess_run_kwargs, "stdout"),
        stderr |-> Stdio(_subprocess_run_kwargs, "stderr"),
        rc |-> 0, wrote |-> FALSE]]
  /\ events' = [events EXCEPT ![t] = Append(@, [ev |-> "spawn", cwd |-> TempDir])]
  /\ pc' = [pc EXCEPT ![t] = "move"]
  /\ UNCHANGED <<config, logging, fs, req, command, result, ncalls>>

\* subprocess.run(command, **self._subprocess_run_kwargs, cwd=temp_dir): the
\* child is started, and the call waits for it.
subprocess_run(t) ==
  /\ pc[t] = "spawn"
  /\ child' = [child EXCEPT ![t] =
       [state |-> "running", cmd |-> command[t], cwd |-> TempDir,
        stdout |-> Stdio(_subprocess_run_kwargs, "stdout"),
        stderr |-> Stdio(_subprocess_run_kwargs, "stderr"),
        rc |-> 0, wrote |-> FALSE]]
  /\ events' = [events EXCEPT ![t] = Append(@, [ev |-> "spawn", cwd |-> TempDir])]
  /\ pc' = [pc EXCEPT ![t] = "wait"]
  /\ UNCHANGED <<config, logging, fs, req, command, result, ncalls>>

\* The browser ends: with exit status rc, having written its screenshot or
\* not. subprocess.run returns (it does not look at the status).
browser_exit(t, rc, wrote) ==
  /\ child[t].state = "running"
  /\ fs' = BrowserWrite(fs, child[t].cmd, child[t].cwd, req[t].id, wrote)
  /\ child' = [child EXCEPT ![t] =
       [@ EXCEPT !.state = "exited", !.rc = rc, !.wrote = wrote]]
  /\ events' = [events EXCEPT ![t] = Append(@, [ev |-> "exit", rc |-> rc])]
  /\ pc' = [pc EXCEPT ![t] = IF @ = "wait" THEN "move" ELSE @]
  /\ UNCHANGED <<config, logging, req, command, result, ncalls>>

\* shutil.move(os.path.join(temp_dir, 'screenshot.png'), output_path_file),
\* and the end of screenshot: by the move's exception, or returning None.
shutil_move(t) ==
  /\ pc[t] = "move"
  /\ LET m == ShutilMove(fs, TempShot, OutputPathFile(t))
     IN /\ fs' = m.files
        /\ result' = [result EXCEPT ![t] =
             IF m.err = "" THEN Returned ELSE OSError(m.err)]
        /\ events' = [events EXCEPT ![t] =
             Append(@, [ev |-> "move", ok |-> m.err = "", replaced |-> m.replaced])]
  /\ pc' = [pc EXCEPT ![t] = "done"]
  /\ UNCHANGED <<config, logging, req, command, child, ncalls>>

\* The caller has the call's outcome; the thread is free for its next call.
finish(t) ==
  /\ pc[t] = "done"
  /\ child[t].state # "running"
  /\ pc' = [pc EXCEPT ![t] = "idle"]
  /\ req' = [req EXCEPT ![t] = NoReq]
  /\ command' = [command EXCEPT ![t] = <<>>]
  /\ child' = [child EXCEPT ![t] = NoChild]
  /\ result' = [result EXCEPT ![t] = NoError]
  /\ events' = [events EXCEPT ![t] = <<>>]
  /\ UNCHANGED <<config, logging, fs, ncalls>>

\* The disable_logging setter.
disable_logging_setter(value) ==
  /\ _disable_logging' = value
  /\ _subprocess_run_kwargs' = SubprocessRunKwargs(value)
  /\ UNCHANGED <<config, fs, pc, req, command, child, result, events, ncalls>>

\* ---------------------------------------------------- specifications
\* One caller, one call at a time: the use the wrapper is written for.
Call ==
  /\ ncalls < MaxCalls
  /\ \E input \in Inputs, output_path \in OutputPaths,
        output_file \in OutputFiles, size \in Sizes :
       screenshot(MainThread, input, output_path, output_file, size)

SetLogging ==
  /\ pc[MainThread] = "idle"
  /\ \E value \in BOOLEAN : disable_logging_setter(value)

Next ==
  \/ Call
  \/ subprocess_run(MainThread)
  \/ \E rc \in {0, 1}, wrote \in BOOLEAN : browser_exit(MainThread, rc, wrote)
  \/ shutil_move(MainThread)
  \/ finish(MainThread)
  \/ SetLogging

Spec == Init /\ [][Next]_vars

\* Two callers sharing the object, their calls interleaved at every step.
ConcCall(t) ==
  /\ ncalls < MaxConcCalls
  /\ \E input \in ConcInputs, output_path \in ConcOutputPaths,
        output_file \in ConcOutputFiles, size \in ConcSizes :
       screenshot(t, input, output_path, output_file, size)

ConcNext ==
  \E t \in Threads :
    \/ ConcCall(t)
    \/ subprocess_run(t)
    \/ \E rc \in {0, 1}, wrote \in BOOLEAN : browser_exit(t, rc, wrote)
    \/ shutil_move(t)
    \/ finish(t)

ConcSpec == ConcInit /\ [][ConcNext]_vars

\* ------------------------------------------------------------ claims
\* Thread t is in a call whose arguments pass both validations.
ValidReq(t) ==
  /\ pc[t] # "idle"
  /\ Truthy(req[t].input)
  /\ req[t].size[1] >= 1
  /\ req[t].size[2] >= 1

Contains(seq, x) == \E i \in DOMAIN seq : seq[i] = x

\* The names of the side effects of t's call, in order.
EvNames(t) == [i \in DOMAIN events[t] |-> events[t][i].ev]

IsPrefix(a, b) == Len(a) <= Len(b) /\ \A i \in DOMAIN a : a[i] = b[i]

\* The image the browser renders for t's call.
OwnImage(t) == [call |-> req[t].id, url |-> Str(req[t].input)]

FileNotFound == [type |-> "FileNotFoundError"]

\* C1: a call of screenshot whose input is empty ('' or None) ends with the
\* ValueError of the empty input whatever the other arguments are, an invalid
\* size included, and has echoed nothing, spawned no child and moved no file.
C1_EmptyInputRaisesFirst ==
  \A t \in Threads :
    (pc[t] # "idle" /\ ~Truthy(req[t].input)) =>
      /\ pc[t] = "done"
      /\ result[t] = [type |-> "ValueError", msg |-> InputEmptyMsg]
      /\ events[t] = <<>>
      /\ child[t].state = "none"
      /\ command[t] = <<>>

C1_Witness ==
  \E t \in Threads :
    /\ pc[t] = "done"
    /\ req[t].input = PyNone
    /\ req[t].size[1] < 1
    /\ req[t].output_path = "nodir"
    /\ result[t].type = "ValueError"

\* C2: a call with a non-empty input and a size of which either dimension is
\* less than 1 ends with a ValueError whose message holds the output file's
\* name and the size tuple, and has spawned no child and moved no file.
C2_BadSizeRaises ==
  \A t \in Threads :
    (pc[t] # "idle" /\ Truthy(req[t].input)
       /\ (req[t].size[1] < 1 \/ req[t].size[2] < 1)) =>
      /\ pc[t] = "done"
      /\ result[t].type = "ValueError"
      /\ Contains(result[t].msg, req[t].output_file)
      /\ Contains(result[t].msg, TupleStr(req[t].size))
      /\ (req[t].size = <<0, 600>> => Contains(result[t].msg, "(0, 600)"))
      /\ (req[t].size = <<1, -1>> => Contains(result[t].msg, "(1, -1)"))
      /\ events[t] = <<>>
      /\ child[t].state = "none"

C2_Witness ==
  \E t \in Threads :
    /\ pc[t] = "done"
    /\ Truthy(req[t].input)
    /\ req[t].size = <<1, -1>>
    /\ req[t].output_file = "x.png"
    /\ result[t].type = "ValueError"
    /\ Contains(result[t].msg, "x.png")

\* C3: a call with valid arguments and an existing output directory, whose
\* browser wrote screenshot.png into the temp directory, raises nothing, and
\* after it output_path/output_file holds this call's image, whatever was there
\* before (one call at a time).
C3_DestinationHoldsThisCallsImage ==
  \A t \in Threads :
    /\ (pc[t] = "done" /\ ValidReq(t)) => result[t].type # "ValueError"
    /\ (pc[t] = "done" /\ ValidReq(t) /\ child[t].wrote
          /\ req[t].output_path \in ExistingDirs) =>
         /\ result[t] = Returned
         /\ fs[OutputPathFile(t)] = OwnImage(t)

C3_Witness ==
  \E t \in Threads :
    /\ pc[t] = "done"
    /\ ValidReq(t)
    /\ child[t].wrote
    /\ req[t].id >= 2
    /\ result[t] = Returned
    /\ events[t][Len(events[t])].ev = "move"
    /\ events[t][Len(events[t])].replaced
    /\ fs[OutputPathFile(t)] = OwnImage(t)

\* C4: the command line of a valid call is, in this order, the executable,
\* --headless, --window-size=<width>,<height>, the configured flags in their
\* order, --screenshot, -url and the input, and nothing else: the output path
\* and file name are not in it. The child is started with that command line.
C4_CommandLine ==
  \A t \in Threads :
    ValidReq(t) =>
      LET c == command[t]
          n == Len(flags)
      IN /\ Len(c) = n + 6
         /\ c[1] = _executable
         /\ c[2] = "--headless"
         /\ c[3] = "--window-size=" \o IntStr(req[t].size[1]) \o ","
                     \o IntStr(req[t].size[2])
         /\ (req[t].size = <<800, 600>> => c[3] = "--window-size=800,600")
         /\ \A i \in 1..n : c[3 + i] = flags[i]
         /\ c[n + 4] = "--screenshot"
         /\ c[n + 5] = "-url"
         /\ c[n + 6] = req[t].input.v
         /\ \A i \in DOMAIN c :
              c[i] \notin {req[t].output_path, req[t].output_file, OutputPathFile(t)}
         /\ (child[t].state # "none" => child[t].cmd = c)

C4_Witness ==
  \E t \in Threads :
    /\ ValidReq(t)
    /\ req[t].size = <<800, 600>>
    /\ flags = <<"--a", "--hide-scrollbars">>
    /\ child[t].state = "running"
    /\ child[t].cmd =
         <<"firefox", "--headless", "--window-size=800,600", "--a",
           "--hide-scrollbars", "--screenshot", "-url", "a.html">>

\* The flags of a command line: what stands between the window size and
\* --screenshot.
ExtraFlags(c) == SubSeq(c, 4, Len(c) - 3)

\* C5: built with no flags, the invoker puts exactly the two default flags in
\* the command line; built with a flags value of the caller's (any list of
\* strings, or one string), exactly the supplied flags.
C5_SuppliedFlagsReplaceDefaults ==
  \A t \in Threads :
    ValidReq(t) =>
      ExtraFlags(command[t]) =
        IF flagsArg = PyNone THEN DefaultFlags
        ELSE IF IsStr(flagsArg) THEN <<flagsArg.v>> ELSE flagsArg.v

\* C6: in a valid call whose child exited with a non-zero status, or which
\* finds no screenshot.png in the temp directory once the child has run, the
\* move fails with FileNotFoundError and writes nothing.
C6_FailedChildFailsMove ==
  [][\A t \in Threads :
       (pc[t] = "move" /\ pc'[t] = "done"
          /\ (child[t].rc # 0 \/ fs[TempShot] = NoFile)) =>
         (result'[t] = FileNotFound /\ fs' = fs)]_vars

\* C6 as amended: in a valid call that finds no screenshot.png in the temp
\* directory when the move runs, the move fails with FileNotFoundError, the
\* call ends with that exception, nothing more is tried, and no file changes.
\* (The child's exit status plays no part.)
C6_AbsentFileFailsMove ==
  [][\A t \in Threads :
       (pc[t] = "move" /\ pc'[t] # "move" /\ fs[TempShot] = NoFile) =>
         /\ result'[t] = FileNotFound
         /\ pc'[t] = "done"
         /\ fs' = fs
         /\ child' = child
         /\ events'[t] =
              Append(events[t], [ev |-> "move", ok |-> FALSE, replaced |-> FALSE])]_vars

C6_Witness ==
  \E t \in Threads :
    /\ pc[t] = "done"
    /\ ValidReq(t)
    /\ child[t].state = "exited"
    /\ child[t].rc = 0
    /\ ~child[t].wrote
    /\ req[t].output_path \in ExistingDirs
    /\ result[t] = FileNotFound
    /\ fs[TempShot] = NoFile
    /\ fs[OutputPathFile(t)] = NoFile

\* C7: nothing keeps two calls apart on the temp file. A browser that writes
\* replaces whatever screenshot.png the temp directory holds, and a move that
\* succeeds takes whatever is there at that moment, the last writer's image,
\* and leaves none behind: so a call may deliver the other call's image, and
\* a call whose browser did write may find nothing to move.
C7_LastWriterWins ==
  [][\A t \in Threads :
       /\ (child[t].state = "running" /\ child'[t].state = "exited"
             /\ child'[t].wrote) => fs'[TempShot] = OwnImage(t)
       /\ (pc[t] = "move" /\ pc'[t] = "done" /\ result'[t] = Returned) =>
            /\ fs'[OutputPathFile(t)] = fs[TempShot]
            /\ fs'[TempShot] = NoFile]_vars

C7_Witness ==
  \E t \in Threads, u \in Threads :
    /\ t # u
    /\ pc[t] = "done" /\ pc[u] = "done"
    /\ ValidReq(t) /\ ValidReq(u)
    /\ req[t].input # req[u].input
    /\ OutputPathFile(t) # OutputPathFile(u)
    /\ child[t].wrote /\ child[u].wrote
    /\ result[t] = Returned
    /\ fs[OutputPathFile(t)] = OwnImage(u)
    /\ result[u] = FileNotFound

\* C8: with one call at a time, the image a successful call leaves at its
\* destination is the one its own browser run produced, whatever the earlier
\* calls did.
C8_SequentialCallsIndependent ==
  \A t \in Threads :
    (pc[t] = "done" /\ result[t] = Returned) =>
      fs[OutputPathFile(t)] = OwnImage(t)

\* C9: after construction and after any assignments to disable_logging, the
\* cached subprocess options send the child's stdout and stderr to DEVNULL
\* when the flag is true and name no stream at all when it is false, and a
\* child is started with the streams the flag asks for (one call at a time).
C9_KwargsFollowFlag ==
  /\ Stdio(_subprocess_run_kwargs, "stdout") =
       (IF _disable_logging THEN "DEVNULL" ELSE "inherit")
  /\ Stdio(_subprocess_run_kwargs, "stderr") =
       (IF _disable_logging THEN "DEVNULL" ELSE "inherit")
  /\ DOMAIN _subprocess_run_kwargs =
       (IF _disable_logging THEN {"stdout", "stderr"} ELSE {})
  /\ \A t \in Threads :
       child[t].state # "none" =>
         /\ child[t].stdout = (IF _disable_logging THEN "DEVNULL" ELSE "inherit")
         /\ child[t].stderr = (IF _disable_logging THEN "DEVNULL" ELSE "inherit")

C9_Witness ==
  \E t \in Threads :
    /\ ~loggingArg
    /\ _disable_logging
    /\ child[t].state = "running"
    /\ child[t].stdout = "DEVNULL"
    /\ child[t].stderr = "DEVNULL"

\* The side effects of a whole valid call.
ExpectedEvents ==
  (IF print_command THEN <<"echo">> ELSE <<>>) \o <<"spawn", "exit", "move">>

\* C10: the side effects of a valid call come in one order: the echo of the
\* space-joined command line (if and only if print_command is set), the spawn
\* of the child in the temp directory, the child's end, the move. The call
\* waits while its child runs: it neither moves nor ends before the child has.
C10_LinearOrder ==
  \A t \in Threads :
    /\ IsPrefix(EvNames(t), ExpectedEvents)
    /\ \A i \in DOMAIN events[t] :
         /\ events[t][i].ev = "echo" => events[t][i].text = JoinSpace(command[t])
         /\ events[t][i].ev = "spawn" => events[t][i].cwd = "/tmp/html2image"
    /\ child[t].state = "running" => pc[t] = "wait"
    /\ pc[t] = "spawn" => Len(events[t]) = Len(ExpectedEvents) - 3
    /\ pc[t] = "wait" => Len(events[t]) = Len(ExpectedEvents) - 2
    /\ pc[t] = "move" => Len(events[t]) = Len(ExpectedEvents) - 1
    /\ (pc[t] = "done" /\ ValidReq(t)) =>
         /\ EvNames(t) = ExpectedEvents
         /\ child[t].state = "exited"
         /\ child[t].cwd = "/tmp/html2image"

C10_Witness ==
  \E t \in Threads :
    /\ pc[t] = "done"
    /\ print_command
    /\ EvNames(t) = <<"echo", "spawn", "exit", "move">>
    /\ events[t][1].text =
         "firefox --headless --window-size=800,600 "
           \o "--default-background-color=00000000 --hide-scrollbars "
           \o "--screenshot -url a.html"
    /\ result[t] = Returned

====
